---- MODULE Spec2Model ----
(***************************************************************************)
(* Model of the PersonDetector scan loop: the App component (state,        *)
(* handleImageCapture, handleNoMotion, toggleSystem), the WebcamCapture    *)
(* component (camera effect, checkForMotion, processFrame, interval        *)
(* effect, triggerManualCapture) and analyzeImageForPerson.                *)
(*                                                                         *)
(* React state is modelled in two layers.  The variables isActive,         *)
(* isAnalyzing, lastResult, history, currentInterval and stream hold the   *)
(* value of each useState cell with every queued setState already applied  *)
(* (the queue of one cell is processed in order, so this is the value the  *)
(* next render will see).  The record `rendered'                           *)
(* holds the values the last committed render saw: these are the values    *)
(* captured by the closures created in that render (useCallback bodies,    *)
(* the imperative handle, the DOM's disabled attribute).  Updates made in  *)
(* a timer callback or a promise continuation stay queued until the        *)
(* next render; updates made in a click handler are committed with the     *)
(* handler (discrete events are flushed synchronously).  Every handler     *)
(* takes a parameter `sync': TRUE when the render it schedules is          *)
(* committed before any other callback runs, FALSE when the render is left *)
(* to a later Render step.  Spec takes every handler with sync = TRUE;     *)
(* SpecBatched lets timer callbacks and promise continuations leave their  *)
(* updates queued.                                                         *)
(***************************************************************************)
EXTENDS Integers, Sequences, FiniteSets, Bags, TLC

\* ---------------------------------------------------------------- bounds
MaxEvents == 2      \* events created in one behaviour of Spec / SpecBatched
MaxPushes == 6      \* events created in one behaviour of SpecHistory
MaxCompletions == 4 \* events created in one behaviour of SpecBackoff
MaxCalls == 2       \* analyzeImageForPerson calls outstanding at once
MaxSerialCalls == 1 \* the same, in SpecBackoff
MaxCameraStarts == 1 \* getUserMedia requests outstanding at once
MaxIntervals == 1   \* setInterval timers of earlier effect runs kept track of
MaxMotionEvents == 1 \* events created in one behaviour of SpecMotion
MaxClock == 31000   \* milliseconds of wall-clock time in one behaviour of SpecClock

\* ------------------------------------------------------ program constants
DEFAULT_INTERVAL == 30000
MAX_INTERVAL == 300000
HISTORY_CAPACITY == 5
CONFIDENCE_THRESHOLD == 45
PIXEL_DIFF_THRESHOLD == 30
DEFAULT_MOTION_SENSITIVITY == 15
SENSITIVITY_SCALE == 10
PERCENT == 100
scaledWidth == 50
scaledHeight == 50
totalPixels == scaledWidth * scaledHeight
WARMUP_DELAY == 1000

PERSON_DETECTED == "PERSON_DETECTED"
NO_PERSON == "NO_PERSON"
STATIC_SCENE == "STATIC_SCENE"
COOLDOWN == "COOLDOWN"
ERROR == "ERROR"

\* useState<AnalysisResult | null>(null): the null result
NoResult == [status |-> "null", timestamp |-> 0]

Min(a, b) == IF a < b THEN a ELSE b
Abs(a) == IF a < 0 THEN 0 - a ELSE a

\* --------------------------------------------------------------- inputs
\* A downsampled frame (50 x 50 pixels), kept as runs of equal pixels in
\* scan order: each run is a number of pixels and their <<r, g, b>>.  Dark
\* is all black; LitFrame(k) differs from it in its first k pixels by a
\* summed difference of 31 (over the per-pixel threshold of 30) and
\* DimFrame(k) by 30 (not over it).  Lit has 38 such pixels, 1.52 % of the
\* frame: over the default threshold of 1.5 %.
Run(n, p) == [count |-> n, pixel |-> p]
PatchFrame(k, p) ==
    IF k = 0 THEN <<Run(totalPixels, <<0, 0, 0>>)>>
    ELSE IF k = totalPixels THEN <<Run(totalPixels, p)>>
    ELSE <<Run(k, p), Run(totalPixels - k, <<0, 0, 0>>)>>
LitFrame(k) == PatchFrame(k, <<11, 10, 10>>)
DimFrame(k) == PatchFrame(k, <<10, 10, 10>>)
Dark == LitFrame(0)
Lit == LitFrame(38)
Frames == {Dark, Lit}

\* Frames around the thresholds: 35 of 2500 pixels are 1.4 % and 251 are
\* 10.04 %, over every threshold.
MotionFrames == {Dark, DimFrame(35), LitFrame(35), LitFrame(251)}
\* The values of the motionSensitivity prop.
Sensitivities == 0..100

\* Replies of the remote model as analyzeImageForPerson sees them.
Replies ==
    { [kind |-> "json", personDetected |-> TRUE, confidence |-> 46],
      [kind |-> "json", personDetected |-> TRUE, confidence |-> 45],
      [kind |-> "json", personDetected |-> FALSE, confidence |-> 46],
      [kind |-> "rateLimited", personDetected |-> FALSE, confidence |-> 0],
      [kind |-> "networkError", personDetected |-> FALSE, confidence |-> 0] }

\* The other failures analyzeImageForPerson catches: an empty response text
\* (its own throw) and a thrown value that is no Error object.
OtherFailures ==
    { [kind |-> "emptyResponse", personDetected |-> FALSE, confidence |-> 0],
      [kind |-> "unknown", personDetected |-> FALSE, confidence |-> 0] }

VARIABLES
    isActive, isAnalyzing, lastResult, history, currentInterval,
    nextScanTimeRef,
    stream, prevFrameDataRef, srcObject,
    rendered, timeouts, intervals,
    calls, cameraStarts,
    motionSensitivity, motionLevel,
    eventCount, clearedAt, lastOp,
    clock

appVars == <<isActive, isAnalyzing, lastResult, history, currentInterval,
             nextScanTimeRef>>
vars == <<isActive, isAnalyzing, lastResult, history, currentInterval,
          nextScanTimeRef, stream, prevFrameDataRef,
          srcObject, rendered, timeouts, intervals, calls, cameraStarts,
          motionSensitivity, motionLevel,
          eventCount, clearedAt, lastOp, clock>>

\* ------------------------------------------------------- pure functions

\* geminiService: isReliable
IsReliableLoose(personDetected, confidence) ==
    personDetected /\ confidence >= CONFIDENCE_THRESHOLD
IsReliable(personDetected, confidence) ==
    personDetected /\ confidence > CONFIDENCE_THRESHOLD

\* analyzeImageForPerson: what the awaited promise settles to, given the
\* remote reply.  "throw" is the rejected promise (only QUOTA_EXCEEDED is
\* ever thrown); every other failure is swallowed and RETURNED as a result
\* whose status is ERROR.
analyzeImageForPersonSwallowsAll(reply) ==
    IF reply.kind = "json"
    THEN [settle |-> "return",
          status |-> IF IsReliable(reply.personDetected, reply.confidence)
                     THEN PERSON_DETECTED ELSE NO_PERSON]
    ELSE [settle |-> "return", status |-> ERROR]
analyzeImageForPerson(reply) ==
    CASE reply.kind = "json" ->
           [settle |-> "return",
            status |-> IF IsReliable(reply.personDetected, reply.confidence)
                       THEN PERSON_DETECTED ELSE NO_PERSON]
      [] reply.kind = "rateLimited" ->
           [settle |-> "throw", status |-> "QUOTA_EXCEEDED"]
      [] OTHER ->
           [settle |-> "return", status |-> ERROR]

\* App.addToHistory: prev => [result, ...prev].slice(0, 5).  A history
\* entry is the result object itself; the model keeps it by its identity,
\* the creation index the model uses as its timestamp.
Slice(s, n) == SubSeq(s, 1, Min(Len(s), n))
addToHistoryAppend(prev, result) ==
    LET s == prev \o <<result>> IN Slice(s, HISTORY_CAPACITY)
addToHistoryDropsNewest(prev, result) == Slice(prev, HISTORY_CAPACITY)
addToHistory(prev, result) == Slice(<<result>> \o prev, HISTORY_CAPACITY)

\* toggleSystem, deactivation: setHistory([])
historyKeptOnDeactivation(prev) == prev
historyAfterDeactivation(prev) == <<>>

\* handleImageCapture, quota branch: Math.min(currentInterval * 2, 300000)
QuotaIntervalUnclamped(closureInterval) == closureInterval * 2
QuotaInterval(closureInterval) == Min(closureInterval * 2, MAX_INTERVAL)

\* handleImageCapture, try branch: setCurrentInterval(DEFAULT_INTERVAL)
SuccessIntervalDecay(closureInterval) ==
    IF closureInterval > DEFAULT_INTERVAL
    THEN closureInterval \div 2 ELSE DEFAULT_INTERVAL
SuccessInterval(closureInterval) == DEFAULT_INTERVAL

\* ------------------------------------------------ Number arithmetic
\* A JavaScript Number (IEEE-754 double) that is zero or positive and
\* normal: zero, or (hi * 2^34 + mid * 2^16 + lo) * 2^(exp - 52) with
\* 2^18 <= hi < 2^19, mid < 2^18 and lo < 2^16, the 53 significant bits in
\* three limbs.
HI_UNIT == 262144
MID_UNIT == 262144
LO_UNIT == 65536
FZero == [exp |-> 0, hi |-> 0, mid |-> 0, lo |-> 0]

RECURSIVE Pow2(_)
Pow2(n) == IF n = 0 THEN 1 ELSE 2 * Pow2(n - 1)
\* The least i with x * 2^i >= y.
RECURSIVE ShiftsUp(_, _)
ShiftsUp(x, y) == IF x >= y THEN 0 ELSE 1 + ShiftsUp(2 * x, y)

\* Round to nearest, ties to even: the 53-bit significand (hi, mid, lo),
\* the bit after it (guard) and whether anything non-zero follows (sticky).
RoundToNearestEven(exp, hi, mid, lo, guard, sticky) ==
    LET up == guard = 1 /\ (sticky \/ lo % 2 = 1)
        lo1 == IF up THEN lo + 1 ELSE lo
        mid1 == mid + lo1 \div LO_UNIT
        hi1 == hi + mid1 \div MID_UNIT
    IN IF hi1 = 2 * HI_UNIT
       THEN [exp |-> exp + 1, hi |-> HI_UNIT, mid |-> 0, lo |-> 0]
       ELSE [exp |-> exp, hi |-> hi1, mid |-> mid1 % MID_UNIT,
             lo |-> lo1 % LO_UNIT]

\* a / b on Numbers holding the integers 0 <= a and 0 < b < 2^12.
FDiv(a, b) ==
    IF a = 0 THEN FZero
    ELSE LET up == ShiftsUp(a, b)
             a1 == a * Pow2(up)
             down == ShiftsUp(b, a1 + 1) - 1
             b1 == b * Pow2(down)
             t1 == (a1 - b1) * HI_UNIT
             t2 == (t1 % b1) * MID_UNIT
             t3 == (t2 % b1) * (2 * LO_UNIT)
             q3 == t3 \div b1
         IN RoundToNearestEven(down - up, HI_UNIT + t1 \div b1, t2 \div b1,
                               q3 \div 2, q3 % 2, t3 % b1 # 0)

\* x * c for a Number x and an integer 0 <= c < 2^11.
FMulInt(x, c) ==
    IF x = FZero \/ c = 0 THEN FZero
    ELSE LET p0 == x.lo * c
             p1 == x.mid * c + p0 \div LO_UNIT
             p2 == x.hi * c + p1 \div MID_UNIT
             lo == p0 % LO_UNIT
             mid == p1 % MID_UNIT
             sh == ShiftsUp(2 * HI_UNIT, p2 + 1)
             unit == Pow2(sh)
             out == lo % unit
         IN IF sh = 0 THEN [exp |-> x.exp, hi |-> p2, mid |-> mid, lo |-> lo]
            ELSE RoundToNearestEven(x.exp + sh,
                     p2 \div unit,
                     mid \div unit + (p2 % unit) * (MID_UNIT \div unit),
                     lo \div unit + (mid % unit) * (LO_UNIT \div unit),
                     out \div (unit \div 2),
                     out % (unit \div 2) # 0)

\* x > y
FGreater(x, y) ==
    IF x = FZero THEN FALSE
    ELSE IF y = FZero THEN TRUE
    ELSE IF x.exp # y.exp THEN x.exp > y.exp
    ELSE IF x.hi # y.hi THEN x.hi > y.hi
    ELSE IF x.mid # y.mid THEN x.mid > y.mid
    ELSE x.lo > y.lo

\* ------------------------------------------------------- checkForMotion
\* Lines 138-153: the number of pixels whose summed absolute channel
\* difference exceeds 30, counted run by run.
PixelDiff(p, q) == Abs(p[1] - q[1]) + Abs(p[2] - q[2]) + Abs(p[3] - q[3])
RestOfRuns(runs, n) ==
    IF runs[1].count = n THEN Tail(runs)
    ELSE <<Run(runs[1].count - n, runs[1].pixel)>> \o Tail(runs)
RECURSIVE ChangedPixels(_, _)
ChangedPixels(cur, prev) ==
    IF cur = <<>> \/ prev = <<>> THEN 0
    ELSE LET n == Min(cur[1].count, prev[1].count)
         IN (IF PixelDiff(cur[1].pixel, prev[1].pixel) > PIXEL_DIFF_THRESHOLD
             THEN n ELSE 0)
            + ChangedPixels(RestOfRuns(cur, n), RestOfRuns(prev, n))

\* Line 158: (changedPixels / totalPixels) * 100, in Number arithmetic.
changePercentage(cur, prev) ==
    FMulInt(FDiv(ChangedPixels(cur, prev), totalPixels), PERCENT)
\* Line 162: motionSensitivity / 10
threshold(sensitivity) == FDiv(sensitivity, SENSITIVITY_SCALE)

\* What checkForMotion leaves in prevFrameDataRef: the current sample, on
\* the cold start (line 134) and after a comparison (line 155).
storedSampleFirstOnly(cur, prev) == IF prev = <<>> THEN cur ELSE prev
storedSample(cur, prev) == cur

\* What checkForMotion returns: true with no previous sample (lines
\* 133-136), changePercentage > threshold otherwise (line 164).
checkForMotion(cur, prev) ==
    IF prev = <<>>
    THEN TRUE
    ELSE FGreater(changePercentage(cur, prev), threshold(motionSensitivity))

\* The closure environment captured by processFrame / handleImageCapture /
\* handleNoMotion in one render.
Closure(r) == [isActive |-> r.isActive, isAnalyzing |-> r.isAnalyzing,
               currentInterval |-> r.currentInterval]

\* lastOp records what the last step did that the state cells do not keep:
\* the remote reply a completion handled, the status of the event the step
\* emitted, how often it invoked playAlarmSound, whether the completed
\* call had been outstanding when the system was last deactivated, and for
\* a timer tick or manual trigger whether the video frame was ready, what
\* checkForMotion returned ("none" when it was not called), the frame it
\* sampled and whether an analyzeImageForPerson call was issued.
NoReply == [kind |-> "none", personDetected |-> FALSE, confidence |-> 0]
Op(name) == [op |-> name, reply |-> NoReply, emitted |-> "none",
             alerts |-> 0, orphan |-> FALSE, ready |-> FALSE,
             detector |-> "none", frame |-> <<>>, issued |-> FALSE]

\* A timer armed by the interval effect: the closure of the processFrame it
\* calls and the wall-clock time it is due.
Timer(c, due) == [closure |-> c, due |-> due]

\* calls is the bag of analyzeImageForPerson calls awaited by an instance
\* of handleImageCapture: each keeps the currentInterval of the closure
\* that issued it, and whether it was outstanding when toggleSystem
\* deactivated the system (kept until the system is activated again).
NumCalls == BagCardinality(calls)
Call(closureInterval) == [currentInterval |-> closureInterval, orphaned |-> FALSE]
CountIn(B, e) == IF BagIn(e, B) THEN CopiesIn(e, B) ELSE 0
MarkAll(B, flag) ==
    [e \in {[x EXCEPT !.orphaned = flag] : x \in BagToSet(B)} |->
        CountIn(B, e) + CountIn(B, [e EXCEPT !.orphaned = ~flag])]

\* ------------------------------------------------------------------ Init
Init ==
    /\ isActive = FALSE
    /\ isAnalyzing = FALSE
    /\ lastResult = NoResult
    /\ history = <<>>
    /\ currentInterval = DEFAULT_INTERVAL
    /\ nextScanTimeRef = DEFAULT_INTERVAL
    /\ stream = FALSE
    /\ prevFrameDataRef = <<>>
    /\ srcObject = FALSE
    /\ rendered = [isActive |-> FALSE, isAnalyzing |-> FALSE,
                   currentInterval |-> DEFAULT_INTERVAL,
                   stream |-> FALSE]
    /\ timeouts = {}
    /\ intervals = {}
    /\ calls = EmptyBag
    /\ cameraStarts = 0
    /\ eventCount = 0
    /\ clearedAt = 0
    /\ lastOp = Op("other")
    /\ clock = 0
    /\ motionSensitivity = DEFAULT_MOTION_SENSITIVITY
    /\ motionLevel = FZero


\* ------------------------------------------------------ render / effects

\* The values of the state cells the closures of a render capture.
Cells(active, analyzing, interval, str) ==
    [isActive |-> active, isAnalyzing |-> analyzing,
     currentInterval |-> interval, stream |-> str]

\* WebcamCapture interval effect (lines 191-208).  It re-runs when one of
\* its dependencies [isActive, intervalMs, processFrame, permissionError,
\* stream] changed; processFrame changes with onCapture/onNoMotion, which
\* change with isAnalyzing and currentInterval.  The cleanup returned by a
\* run that armed the timers is `() => clearTimeout(timeoutId)': it clears
\* the timeout and leaves the interval running.  `pendingTimeouts' and
\* `pendingIntervals' are the timers still pending when the render commits.
\* The timeout is due 1000 ms after the effect ran, the interval intervalMs
\* (the currentInterval of the render) after it.
IntervalEffectArms(s) == s.isActive /\ s.stream
IntervalEffectTimeouts(s, pendingTimeouts) ==
    IF s = rendered THEN pendingTimeouts
    ELSE IF IntervalEffectArms(s)
         THEN {Timer(Closure(s), clock + WARMUP_DELAY)} ELSE {}
IntervalEffectIntervals(s, pendingIntervals) ==
    LET armed == Timer(Closure(s), clock + s.currentInterval)
    IN IF s = rendered THEN pendingIntervals
       ELSE IF IntervalEffectArms(s)
               /\ Cardinality(pendingIntervals \cup {armed}) <= MaxIntervals
            THEN pendingIntervals \cup {armed} ELSE pendingIntervals

\* The end of a handler: with sync, the render it scheduled commits and the
\* interval effect runs; without, the updates stay queued.  Written after
\* the handler's assignments to the state cells.  A handler takes no
\* wall-clock time, and the props App does not pass keep their value.
Flush(sync, pendingTimeouts, pendingIntervals) ==
    LET s == Cells(isActive', isAnalyzing', currentInterval', stream')
    IN /\ clock' = clock
       /\ motionSensitivity' = motionSensitivity
       /\ IF sync
          THEN /\ rendered' = s
               /\ timeouts' = IntervalEffectTimeouts(s, pendingTimeouts)
               /\ intervals' = IntervalEffectIntervals(s, pendingIntervals)
          ELSE /\ rendered' = rendered
               /\ timeouts' = pendingTimeouts
               /\ intervals' = pendingIntervals

\* A render scheduled by updates queued outside a click handler.
Render ==
    /\ Cells(isActive, isAnalyzing, currentInterval, stream) # rendered
    /\ UNCHANGED <<isActive, isAnalyzing, lastResult, history,
                   currentInterval, nextScanTimeRef, stream,
                   prevFrameDataRef, srcObject, calls, cameraStarts,
                   eventCount, clearedAt, motionLevel>>
    /\ Flush(TRUE, timeouts, intervals)
    /\ lastOp' = Op("other")

\* startCamera: getUserMedia resolves (lines 85-92).
CameraReady(sync) ==
    /\ cameraStarts > 0
    /\ cameraStarts' = cameraStarts - 1
    /\ stream' = TRUE
    /\ srcObject' = TRUE
    /\ prevFrameDataRef' = <<>>
    /\ UNCHANGED <<appVars, calls, eventCount, clearedAt, motionLevel>>
    /\ Flush(sync, timeouts, intervals)
    /\ lastOp' = Op("other")

\* ------------------------------------------------------------ App.toggleSystem
\* The click handler reads isActive from the render it was created in; the
\* updates are flushed with the handler.  The camera effect (lines 67-115,
\* dependency isActive) then runs: on activation startCamera() requests the
\* device; on deactivation the stream is stopped, setStream(null) and
\* setMotionLevel(0).
toggleSystem ==
    LET newState == ~rendered.isActive
    IN /\ newState => cameraStarts < MaxCameraStarts
       /\ isActive' = newState
       /\ IF ~newState
          THEN /\ lastResult' = NoResult
               /\ history' = historyAfterDeactivation(history)
               /\ currentInterval' = DEFAULT_INTERVAL
               /\ clearedAt' = eventCount
               /\ stream' = FALSE
               /\ calls' = MarkAll(calls, TRUE)
               /\ motionLevel' = FZero
               /\ UNCHANGED <<nextScanTimeRef, cameraStarts>>
          ELSE /\ nextScanTimeRef' = clock + DEFAULT_INTERVAL
               /\ cameraStarts' = cameraStarts + 1
               /\ calls' = MarkAll(calls, FALSE)
               /\ UNCHANGED <<lastResult, history, currentInterval,
                              clearedAt, stream, motionLevel>>
       /\ UNCHANGED <<isAnalyzing, prevFrameDataRef, srcObject, eventCount>>
       /\ Flush(TRUE, timeouts, intervals)
       /\ lastOp' = Op(IF newState THEN "activate" ELSE "deactivate")

\* ------------------------------------------------- App.handleImageCapture
\* Lines 78-83, up to the await: the guard reads isAnalyzing from the
\* closure c; the call in flight keeps the closure's currentInterval.
handleImageCapture(c, env) ==
    IF c.isAnalyzing
    THEN UNCHANGED <<isAnalyzing, calls>>
    ELSE /\ NumCalls < env.maxCalls
         /\ isAnalyzing' = TRUE
         /\ calls' = calls (+) SetToBag({Call(c.currentInterval)})

\* App.handleNoMotion (lines 120-130): no guard on isAnalyzing; the
\* deadline is computed from the closure's currentInterval.
handleNoMotion(c, env) ==
    LET result == [status |-> STATIC_SCENE, timestamp |-> eventCount + 1]
    IN /\ eventCount < env.maxEvents
       /\ eventCount' = eventCount + 1
       /\ lastResult' = result
       /\ history' = addToHistory(history, result.timestamp)
       /\ nextScanTimeRef' = clock + c.currentInterval

\* processFrame lines 168-177: the early returns, for the closure's isActive
\* and a video element whose videoWidth and videoHeight are non-zero (ready)
\* or not.
processFrameSkipsInactiveOnly(c, ready) == ~c.isActive
processFrameReturnsEarly(c, ready) == ~c.isActive \/ ~ready

\* WebcamCapture.processFrame (lines 167-188) run from a timer with the
\* closure c, on a video element that is ready or not and shows frame f.
\* `pendingTimeouts' and `pendingIntervals' are the timers pending after
\* the timer fired.
processFrame(c, ready, f, sync, pendingTimeouts, pendingIntervals, env) ==
    /\ IF processFrameReturnsEarly(c, ready)
       THEN /\ lastOp' = [Op("tick") EXCEPT !.ready = ready]
            /\ UNCHANGED <<appVars, prevFrameDataRef, calls, eventCount,
                           motionLevel>>
       ELSE /\ prevFrameDataRef' = storedSample(f, prevFrameDataRef)
            /\ motionLevel' = IF prevFrameDataRef = <<>> THEN motionLevel
                               ELSE changePercentage(f, prevFrameDataRef)
            /\ IF checkForMotion(f, prevFrameDataRef)
               THEN /\ handleImageCapture(c, env)
                    /\ lastOp' = [Op("tick") EXCEPT !.ready = ready,
                                                    !.detector = "motion",
                                                    !.frame = f,
                                                    !.issued = ~c.isAnalyzing]
                    /\ UNCHANGED <<isActive, lastResult, history,
                                   currentInterval, nextScanTimeRef, eventCount>>
               ELSE /\ handleNoMotion(c, env)
                    /\ lastOp' = [Op("tick") EXCEPT !.ready = ready,
                                                    !.detector = "still",
                                                    !.frame = f,
                                                    !.emitted = STATIC_SCENE]
                    /\ UNCHANGED <<isActive, isAnalyzing, currentInterval, calls>>
    /\ UNCHANGED <<stream, srcObject, cameraStarts, clearedAt>>
    /\ Flush(sync, pendingTimeouts, pendingIntervals)

\* The setTimeout(() => processFrame(), 1000) of the interval effect fires.
\* Where the specification keeps wall-clock time (env.timed), not before
\* it is due.
TimeoutTick(sync, env) ==
    \E t \in timeouts, ready \in BOOLEAN :
      \E f \in (IF ready THEN env.frames ELSE {Dark}) :
        /\ env.timed => t.due <= clock
        /\ ready => srcObject
        /\ processFrame(t.closure, ready, f, sync, timeouts \ {t}, intervals, env)

\* A setInterval(() => processFrame(), intervalMs) of some run of the
\* interval effect fires; it is never cleared, and is due again intervalMs
\* later.
IntervalTick(sync, env) ==
    \E t \in intervals, ready \in BOOLEAN :
      \E f \in (IF ready THEN env.frames ELSE {Dark}) :
        /\ env.timed => t.due <= clock
        /\ ready => srcObject
        /\ processFrame(t.closure, ready, f, sync, timeouts,
                        (intervals \ {t}) \cup
                            {Timer(t.closure, clock + t.closure.currentInterval)},
                        env)

\* The manual-scan button (part_001 lines 228-231, disabled unless
\* isActive && !isAnalyzing) calls triggerManualCapture (WebcamCapture
\* lines 57-64) of the last render; a click handler, so flushed with it.
triggerManualCapture(env) ==
    \E ready \in BOOLEAN :
        /\ ready => srcObject
        /\ rendered.isActive /\ ~rendered.isAnalyzing
        /\ IF ready
           THEN handleImageCapture(Closure(rendered), env)
           ELSE UNCHANGED <<isAnalyzing, calls>>
        /\ UNCHANGED <<isActive, lastResult, history, currentInterval,
                       nextScanTimeRef, stream, prevFrameDataRef,
                       srcObject, cameraStarts, eventCount, clearedAt,
                       motionLevel>>
        /\ Flush(TRUE, timeouts, intervals)
        /\ lastOp' = [Op("manual") EXCEPT !.ready = ready, !.issued = ready]

\* handleImageCapture after the await (lines 83-117), for the call `call'
\* and the remote reply `reply'.
Complete(call, reply, sync, env) ==
    LET settled == analyzeImageForPerson(reply)
        status == IF settled.settle = "return" THEN settled.status
                  ELSE IF settled.status = "QUOTA_EXCEEDED" THEN COOLDOWN
                  ELSE ERROR
        result == [status |-> status, timestamp |-> eventCount + 1]
        alerts == IF settled.settle = "return" /\ status = PERSON_DETECTED
                  THEN 1 ELSE 0
        closureInterval == call.currentInterval
    IN /\ BagIn(call, calls)
       /\ eventCount < env.maxEvents
       /\ calls' = calls (-) SetToBag({call})
       /\ eventCount' = eventCount + 1
       /\ lastResult' = result
       /\ history' = addToHistory(history, result.timestamp)
       /\ currentInterval' =
             IF settled.settle = "return" THEN SuccessInterval(closureInterval)
             ELSE IF settled.status = "QUOTA_EXCEEDED"
                  THEN QuotaInterval(closureInterval)
                  ELSE currentInterval
       /\ isAnalyzing' = FALSE
       /\ nextScanTimeRef' = clock + closureInterval
       /\ lastOp' = [Op("complete") EXCEPT !.reply = reply,
                        !.emitted = status, !.alerts = alerts,
                        !.orphan = call.orphaned]
       /\ UNCHANGED <<isActive, stream, prevFrameDataRef, srcObject,
                      cameraStarts, clearedAt, motionLevel>>
       /\ Flush(sync, timeouts, intervals)

CompleteCall(sync, env) ==
    \E call \in BagToSet(calls), reply \in env.replies :
        Complete(call, reply, sync, env)

\* Wall-clock time passes until the next timer is due; timers fire when
\* they are due.
Advance ==
    LET dues == {t.due : t \in timeouts \cup intervals}
    IN /\ dues # {}
       /\ \A d \in dues : d > clock
       /\ \E d \in dues :
             /\ \A e \in dues : d <= e
             /\ d <= MaxClock
             /\ clock' = d
       /\ UNCHANGED <<appVars, stream, prevFrameDataRef, srcObject, rendered,
                      timeouts, intervals, calls, cameraStarts, eventCount,
                      clearedAt, motionSensitivity, motionLevel>>
       /\ lastOp' = Op("other")

\* The environment of a specification: the remote replies it draws from,
\* the number of events created in one behaviour, the number of calls
\* outstanding at once, the frames the camera shows, and whether timers
\* wait for the wall clock (where they do not, a timer may fire at any
\* step: time is left out).
Env(replies, maxEvents, maxCalls) ==
    [replies |-> replies, maxEvents |-> maxEvents, maxCalls |-> maxCalls,
     frames |-> Frames, timed |-> FALSE]

\* Every render commits with the handler that scheduled it.
NextOf(env) ==
    \/ toggleSystem
    \/ CameraReady(TRUE)
    \/ TimeoutTick(TRUE, env)
    \/ IntervalTick(TRUE, env)
    \/ triggerManualCapture(env)
    \/ CompleteCall(TRUE, env)

Next == NextOf(Env(Replies, MaxEvents, MaxCalls))

Spec == Init /\ [][Next]_vars

\* Timer callbacks and promise continuations leave their updates queued
\* until a Render step.
NextBatched ==
    LET env == Env(Replies, MaxEvents, MaxCalls)
    IN \/ toggleSystem
       \/ Render
       \/ CameraReady(FALSE)
       \/ TimeoutTick(FALSE, env)
       \/ IntervalTick(FALSE, env)
       \/ triggerManualCapture(env)
       \/ CompleteCall(FALSE, env)

SpecBatched == Init /\ [][NextBatched]_vars

\* The scan loop against a remote service that always fails with a network
\* error: long runs of pushes and clears of the history.
HistoryReplies == {r \in Replies : r.kind = "networkError"}
NextHistory == NextOf(Env(HistoryReplies, MaxPushes, MaxCalls))
SpecHistory == Init /\ [][NextHistory]_vars

\* The scan loop against a remote service that is rate limited or detects a
\* person, one call at a time, before a scene that does not change: long
\* runs of quota failures.
BackoffReplies ==
    {r \in Replies : r.kind = "rateLimited" \/ (r.personDetected /\ r.confidence = 46)}
NextBackoff ==
    NextOf([Env(BackoffReplies, MaxCompletions, MaxSerialCalls)
               EXCEPT !.frames = {Dark}])
SpecBackoff == Init /\ [][NextBackoff]_vars

\* The scan loop with wall-clock time: a timer fires when it is due.
NextClock ==
    \/ NextOf([Env(Replies, MaxEvents, MaxCalls) EXCEPT !.timed = TRUE])
    \/ Advance
SpecClock == Init /\ [][NextClock]_vars

\* The component mounted with any value of the motionSensitivity prop,
\* before scenes that change by amounts around the thresholds; one call
\* and one event in a behaviour.
MotionReplies == {r \in Replies : r.kind = "networkError"}
InitMotion ==
    \E sensitivity \in Sensitivities :
        /\ motionSensitivity = sensitivity
        /\ isActive = FALSE
        /\ isAnalyzing = FALSE
        /\ lastResult = NoResult
        /\ history = <<>>
        /\ currentInterval = DEFAULT_INTERVAL
        /\ nextScanTimeRef = DEFAULT_INTERVAL
        /\ stream = FALSE
        /\ prevFrameDataRef = <<>>
        /\ srcObject = FALSE
        /\ rendered = Cells(FALSE, FALSE, DEFAULT_INTERVAL, FALSE)
        /\ timeouts = {}
        /\ intervals = {}
        /\ calls = EmptyBag
        /\ cameraStarts = 0
        /\ eventCount = 0
        /\ clearedAt = 0
        /\ lastOp = Op("other")
        /\ clock = 0
        /\ motionLevel = FZero
NextMotion ==
    NextOf([Env(MotionReplies, MaxMotionEvents, MaxSerialCalls)
               EXCEPT !.frames = MotionFrames])
SpecMotion == InitMotion /\ [][NextMotion]_vars

\* The scan loop, one call at a time, before a scene that does not change,
\* against a remote service with every kind of reply and failure.
NextClassify ==
    NextOf([Env(Replies \cup OtherFailures, MaxEvents, MaxSerialCalls)
               EXCEPT !.frames = {Dark}])
SpecClassify == Init /\ [][NextClassify]_vars

\* ------------------------------------------------------------- properties

\* C1: at most one analyzeImageForPerson call is in flight at any time.
C1_AtMostOneCallInFlight == NumCalls <= 1

\* C2: when a call that was outstanding at deactivation completes while the
\* system is still inactive, no event is appended: the history stays what
\* it was.
C2_LateResultDiscarded ==
    [][(~isActive /\ lastOp'.op = "complete" /\ lastOp'.orphan)
         => history' = history]_vars

\* C3: the history holds at most 5 events, and they are the min(n, 5) most
\* recently pushed of the n events pushed since the last clear, newest
\* first (events are identified by their creation index).
C3_HistoryNewestFive ==
    LET n == eventCount - clearedAt
        k == IF n < 5 THEN n ELSE 5
    IN /\ Len(history) <= 5
       /\ Len(history) = k
       /\ \A i \in 1..k : history[i] = eventCount - i + 1

C3_Witness ==
    /\ eventCount - clearedAt >= 6
    /\ Len(history) = 5
    /\ history[5] = eventCount - 4

\* C4: every quota-exceeded completion sets currentInterval to
\* min(2 * previous value, 300000).
C4_QuotaDoublesCurrent ==
    [][(lastOp'.op = "complete" /\ lastOp'.reply.kind = "rateLimited")
         => currentInterval' = Min(2 * currentInterval, 300000)]_vars

\* C5: a successful analysis completion leaves currentInterval at the base
\* interval 30000, whatever it was before.
C5_SuccessResetsToBase ==
    (lastOp.op = "complete" /\ lastOp.reply.kind = "json")
        => currentInterval = 30000

\* A success completed for a call issued when the interval had been backed
\* off twice or more.
C5_Witness ==
    /\ lastOp.op = "complete" /\ lastOp.reply.kind = "json"
    /\ nextScanTimeRef >= 120000
    /\ currentInterval = 30000

\* C6: a completion with a generic (not quota) failure emits an Error event
\* and leaves currentInterval unchanged.
C6_GenericErrorKeepsInterval ==
    [][(lastOp'.op = "complete" /\ lastOp'.reply.kind = "networkError")
         => (lastOp'.emitted = ERROR /\ currentInterval' = currentInterval)]_vars

\* C7: a manual trigger issued while busy (isAnalyzing set) starts no call
\* and creates no event.
C7_ManualWhileBusyIsNoOp ==
    [][(isAnalyzing /\ lastOp'.op = "manual")
         => (calls' = calls /\ eventCount' = eventCount)]_vars

\* C8: a successful result is PersonDetected exactly when personDetected is
\* true and confidence > 45, and playAlarmSound is invoked once by a step
\* that emits a PersonDetected event and not at all by any other step.
C8_ClassifyAndAlert ==
    /\ (lastOp.op = "complete" /\ lastOp.reply.kind = "json")
          => /\ lastOp.emitted \in {PERSON_DETECTED, NO_PERSON}
             /\ (lastOp.emitted = PERSON_DETECTED)
                   <=> (lastOp.reply.personDetected /\ lastOp.reply.confidence > 45)
    /\ lastOp.alerts = (IF lastOp.emitted = PERSON_DETECTED THEN 1 ELSE 0)
    /\ (lastOp.emitted # "none" => lastResult.status = lastOp.emitted)

C8_Witness ==
    /\ lastOp.op = "complete"
    /\ lastOp.reply.personDetected /\ lastOp.reply.confidence = 46
    /\ lastOp.emitted = PERSON_DETECTED
    /\ lastOp.alerts = 1

\* C9: currentInterval always lies in [30000, 300000].
C9_IntervalInRange ==
    /\ currentInterval >= 30000 /\ currentInterval <= 300000
    /\ rendered.currentInterval >= 30000 /\ rendered.currentInterval <= 300000

\* The fourth quota failure in a row: 240000 doubled is clamped to 300000.
C9_Witness ==
    /\ lastOp.op = "complete" /\ lastOp.reply.kind = "rateLimited"
    /\ nextScanTimeRef = 240000
    /\ currentInterval = 300000

\* C10: isAnalyzing is true whenever a call is in flight.
C10_BusyWhileInFlight == NumCalls > 0 => isAnalyzing

\* C11: while the system is inactive no timer tick runs: a tick taken while
\* isActive is false calls the motion detector on no frame, emits no event
\* and issues no analysis call.
C11_NoTickWhileInactive ==
    [][(~isActive /\ lastOp'.op = "tick")
         => (lastOp'.detector = "none" /\ eventCount' = eventCount
             /\ calls' = calls)]_vars

\* C12: a tick that runs the motion detector with no previous sample stored
\* reports motion and stores the sample, and the tick that runs the
\* detector first after an activation reports motion (attempts analysis).
C12_ColdStartAttemptsAnalysis ==
    [][(lastOp'.op = "tick" /\ lastOp'.detector # "none")
         => /\ prevFrameDataRef = <<>>
                  => (lastOp'.detector = "motion" /\ prevFrameDataRef' # <<>>)
            /\ lastOp.op = "activate" => lastOp'.detector = "motion"]_vars

\* C14: a completion sets nextScanTimeRef to now + the currentInterval in
\* force after the completion's own update.
C14_DeadlineUsesUpdatedInterval ==
    [][lastOp'.op = "complete"
         => nextScanTimeRef' = clock' + currentInterval']_vars

\* C15: a timer tick runs the motion detector only when the wall clock has
\* reached nextScanTimeRef.
C15_TickWaitsForDeadline ==
    [][(lastOp'.op = "tick" /\ lastOp'.detector # "none")
         => clock >= nextScanTimeRef]_vars

\* C16: a timer tick taken while isAnalyzing is set issues no call and
\* emits no event.
C16_TickWhileBusyDropped ==
    [][(isAnalyzing /\ lastOp'.op = "tick")
         => (calls' = calls /\ eventCount' = eventCount
             /\ lastOp'.emitted = "none")]_vars

\* C17: right after every activation currentInterval is the base interval
\* 30000, the history is empty and nextScanTimeRef = now + 30000.
C17_ActivationStartsClean ==
    [][lastOp'.op = "activate"
         => (currentInterval' = 30000 /\ history' = <<>>
             /\ nextScanTimeRef' = clock' + 30000)]_vars

\* C18: every completion of an analysis call creates exactly one event, the
\* newest of the history and the last result, and its status is
\* PersonDetected or NoPerson after a success, Cooldown after a
\* quota-exceeded failure and Error after every other failure.
C18_OneClassifiedEvent ==
    [][lastOp'.op = "complete"
         => /\ eventCount' = eventCount + 1
            /\ lastResult' = [status |-> lastOp'.emitted, timestamp |-> eventCount']
            /\ Len(history') >= 1 /\ history'[1] = eventCount'
            /\ Len(history') = (IF Len(history) < 5 THEN Len(history) + 1 ELSE 5)
            /\ CASE lastOp'.reply.kind = "json"
                      -> lastOp'.emitted \in {PERSON_DETECTED, NO_PERSON}
                 [] lastOp'.reply.kind = "rateLimited"
                      -> lastOp'.emitted = COOLDOWN
                 [] OTHER -> lastOp'.emitted = ERROR]_vars

\* A failure that is no Error object was completed as an Error event, and
\* it replaced an earlier event as the last result.
C18_Witness ==
    /\ lastOp.op = "complete" /\ lastOp.reply.kind = "unknown"
    /\ lastOp.emitted = ERROR
    /\ lastResult = [status |-> ERROR, timestamp |-> 2]
    /\ history = <<2, 1>>

\* C19: a tick on which the motion detector reports no motion creates
\* exactly one event, a StaticScene, issues no call and sets
\* nextScanTimeRef to now + currentInterval.
C19_StillTickEmitsStaticScene ==
    [][(lastOp'.op = "tick" /\ lastOp'.detector = "still")
         => /\ eventCount' = eventCount + 1
            /\ lastOp'.emitted = STATIC_SCENE
            /\ lastResult' = [status |-> STATIC_SCENE, timestamp |-> eventCount']
            /\ calls' = calls
            /\ nextScanTimeRef' = clock' + currentInterval']_vars

\* C20: a timer tick on a frame that is not ready changes nothing: no
\* event, no call, and nextScanTimeRef, the stored sample, the history,
\* the last result, isAnalyzing and currentInterval are what they were.
C20_NotReadyTickIsNoOp ==
    [][(lastOp'.op = "tick" /\ ~lastOp'.ready)
         => /\ lastOp'.emitted = "none" /\ lastOp'.detector = "none"
            /\ UNCHANGED <<eventCount, calls, nextScanTimeRef,
                           prevFrameDataRef, history, lastResult,
                           isAnalyzing, currentInterval>>]_vars

\* A tick on a frame that was not ready, taken with a sample stored and an
\* event in the history.
C20_Witness ==
    /\ lastOp.op = "tick" /\ ~lastOp.ready
    /\ prevFrameDataRef # <<>>
    /\ history # <<>>
    /\ isActive

\* C13: with p = 100 * (pixels whose summed absolute R, G, B difference
\* exceeds 30) / (total pixels), a tick that runs the motion detector against
\* a stored sample reports motion exactly when p > sensitivity / 10 (stated
\* on integers: both sides multiplied by 10 * total pixels), and on two
\* identical samples motionLevel is 0 and no motion is reported.
C13_MotionIffOverThreshold ==
    [][(lastOp'.op = "tick" /\ lastOp'.detector # "none" /\ prevFrameDataRef # <<>>)
         => LET changed == ChangedPixels(prevFrameDataRef', prevFrameDataRef)
            IN /\ (lastOp'.detector = "motion")
                     <=> (changed * 100 * 10 > motionSensitivity * totalPixels)
               /\ prevFrameDataRef' = prevFrameDataRef
                     => (motionLevel' = FZero /\ lastOp'.detector = "still")]_vars

\* C21: a manual trigger taken while active, not busy and with a frame
\* available issues exactly one analyzeImageForPerson call without running
\* the motion detector and without touching nextScanTimeRef, and no timer
\* tick that follows the trigger while that call is outstanding moves
\* nextScanTimeRef.
C21_ManualKeepsDeadline ==
    [][ /\ (lastOp'.op = "manual" /\ lastOp'.ready /\ ~isAnalyzing)
              => /\ NumCalls' = NumCalls + 1
                 /\ lastOp'.issued
                 /\ prevFrameDataRef' = prevFrameDataRef
                 /\ nextScanTimeRef' = nextScanTimeRef
        /\ (lastOp.op = "manual" /\ lastOp.issued /\ lastOp'.op = "tick")
              => nextScanTimeRef' = nextScanTimeRef ]_vars

\* C22: in the state right after a deactivation, whatever the state before
\* it and whether or not a call is outstanding, the history is empty,
\* lastResult is null and currentInterval is the base interval 30000.
C22_DeactivationClears ==
    [][lastOp'.op = "deactivate"
         => (history' = <<>> /\ lastResult' = NoResult
             /\ currentInterval' = 30000)]_vars

\* A deactivation taken while a call issued at the backed-off interval 60000
\* is outstanding, with an event in the history before it.
C22_Witness ==
    /\ lastOp.op = "deactivate"
    /\ clearedAt >= 1
    /\ \E call \in BagToSet(calls) :
           call.currentInterval = 60000 /\ call.orphaned
    /\ history = <<>>
    /\ lastResult = NoResult
    /\ currentInterval = DEFAULT_INTERVAL

\* C23: every timer tick that runs checkForMotion leaves the frame it
\* sampled in prevFrameDataRef, whether it reports motion or not and
\* whether or not handleImageCapture then drops the tick because
\* isAnalyzing is set.
C23_SampleReplaced ==
    [][(lastOp'.op = "tick" /\ lastOp'.detector # "none")
         => prevFrameDataRef' = lastOp'.frame]_vars

\* A tick that compared the lit frame against a stored sample, reported
\* motion and was dropped by the busy guard, with the lit frame stored.
C23_Witness ==
    /\ lastOp.op = "tick"
    /\ lastOp.detector = "motion"
    /\ ~lastOp.issued
    /\ isAnalyzing
    /\ lastOp.frame = Lit
    /\ motionLevel = changePercentage(Lit, Dark)
    /\ prevFrameDataRef = Lit

\* C24: lastResult is null exactly when the history is empty, and otherwise
\* lastResult is the newest, first, entry of the history.
C24_LastResultIsNewest ==
    /\ (lastResult = NoResult) <=> (history = <<>>)
    /\ history # <<>> => lastResult.timestamp = history[1]

\* A full history built after a deactivation had cleared an earlier one,
\* with lastResult its first entry.
C24_Witness ==
    /\ clearedAt >= 1
    /\ Len(history) = HISTORY_CAPACITY
    /\ lastResult.timestamp = history[1]
    /\ history[1] = eventCount

\* C25: toggleSystem leaves isAnalyzing unchanged, and after an activation
\* taken while an earlier call is outstanding, with isAnalyzing set, the
\* next timer tick or manual trigger issues no call.
C25_TogglePreservesBusy ==
    [][ /\ lastOp'.op \in {"activate", "deactivate"}
              => isAnalyzing' = isAnalyzing
        /\ (lastOp.op = "activate" /\ NumCalls > 0 /\ isAnalyzing
              /\ lastOp'.op \in {"tick", "manual"})
              => (~lastOp'.issued /\ calls' = calls) ]_vars

====
